---- MODULE Spec2Model ----
(***************************************************************************)
(* Model of the YewChat chat component (src/YewChat/src/components/chat.rs)*)
(*                                                                         *)
(* A Rust String is modelled by what the JSON reader sees in it: either    *)
(* characters that are not a JSON object (json = FALSE, chars holds them)  *)
(* or a JSON object (json = TRUE, obj maps every key to its value or to    *)
(* Absent).  Option<T> is a sequence of length 0 (None) or 1 (Some).       *)
(* A panic (a failed unwrap) ends the component: phase = "Crashed" and no  *)
(* handler runs any more.                                                  *)
(***************************************************************************)
EXTENDS Integers, Sequences, FiniteSets, TLC

\* --------------------------------------------------------------- bounds
MaxTranscript == 2
MaxTried == 2

\* ------------------------------------------------------- JSON documents
Keys == {"messageType", "dataArray", "dataList", "data", "from", "message"}

Absent == [t |-> "absent", a |-> <<>>]
JNull == [t |-> "null", a |-> <<>>]
JNum == [t |-> "num", a |-> <<>>]
JStr(s) == [t |-> "str", a |-> <<s>>]
JArr(xs) == [t |-> "arr", a |-> xs]

NoFields == [k \in Keys |-> Absent]

\* characters that do not form a JSON object
Plain(c) == [json |-> FALSE, chars |-> c, obj |-> NoFields]

\* the text of a JSON object with the given fields
Doc(fields) == [json |-> TRUE, chars |-> "", obj |-> fields]

\* ------------------------------------------------------ Option<T>
None == <<>>
Some(x) == <<x>>

\* ------------------------------------------------------ MsgTypes
MsgTypes == {"Users", "Register", "Message"}

\* #[serde(rename_all = "lowercase")]
Token(message_type) ==
    CASE message_type = "Users" -> "users"
      [] message_type = "Register" -> "register"
      [] message_type = "Message" -> "message"

Tokens == {Token(m) : m \in MsgTypes}

TypeOfToken(tok) == CHOOSE m \in MsgTypes : Token(m) = tok

\* ------------------------------------------------------ WebSocketMessage
WebSocketMessage(message_type, data_array, data) ==
    [message_type |-> message_type, data_array |-> data_array, data |-> data]

\* the list under the key dataList
KeyDataList == "dataList"

\* #[serde(rename_all = "camelCase")] on message_type, data_array, data
KeyMessageType == "messageType"
KeyDataArray == "dataArray"
KeyData == "data"

\* to_string that leaves an empty list out, writing null for it
EncodeEmptyListAsNull(m) ==
    Doc([k \in Keys |->
          CASE k = "messageType" -> JStr(Plain(
                   CASE m.message_type = "Users" -> "users"
                     [] m.message_type = "Register" -> "register"
                     [] m.message_type = "Message" -> "message"))
            [] k = "dataArray" ->
                 IF m.data_array \in {None, Some(<<>>)} THEN JNull
                 ELSE JArr(m.data_array[1])
            [] k = "data" ->
                 IF m.data = None THEN JNull ELSE JStr(m.data[1])
            [] OTHER -> Absent])

Encode(m) ==
    Doc([k \in Keys |->
          CASE k = KeyMessageType -> JStr(Plain(Token(m.message_type)))
            [] k = KeyDataArray ->
                 IF m.data_array = None THEN JNull ELSE JArr(m.data_array[1])
            [] k = KeyData ->
                 IF m.data = None THEN JNull ELSE JStr(m.data[1])
            [] OTHER -> Absent])

DecodeError == [ok |-> FALSE, msg |-> WebSocketMessage("Register", None, None)]

\* an Option field: a missing key and null both give None
OptionFieldOk(v, t) == v.t \in {"absent", "null", t}

OptionField(v) == IF v.t \in {"absent", "null"} THEN None
                  ELSE IF v.t = "str" THEN Some(v.a[1]) ELSE Some(v.a)

\* serde_json::from_str::<WebSocketMessage>(&s); keys that are not fields
\* of the struct are ignored
Decode(s) ==
    LET mt == s.obj[KeyMessageType]
    IN  IF /\ s.json
           /\ mt.t = "str"
           /\ ~mt.a[1].json
           /\ mt.a[1].chars \in Tokens
           /\ OptionFieldOk(s.obj[KeyDataArray], "arr")
           /\ OptionFieldOk(s.obj[KeyData], "str")
        THEN [ok |-> TRUE,
              msg |-> WebSocketMessage(TypeOfToken(mt.a[1].chars),
                                       OptionField(s.obj[KeyDataArray]),
                                       OptionField(s.obj[KeyData]))]
        ELSE DecodeError

\* ------------------------------------------------------ MessageData
MessageData(from, message) == [from |-> from, message |-> message]

PayloadError == [ok |-> FALSE, data |-> MessageData(Plain(""), Plain(""))]

\* serde_json::from_str::<MessageData>(..): both fields are required strings
DecodePayload(s) ==
    IF /\ s.json
       /\ s.obj["from"].t = "str"
       /\ s.obj["message"].t = "str"
    THEN [ok |-> TRUE,
          data |-> MessageData(s.obj["from"].a[1], s.obj["message"].a[1])]
    ELSE PayloadError

\* ------------------------------------------------------ UserProfile
AvatarPrefix == "https://avatars.dicebear.com/api/adventurer-neutral/"
AvatarSuffix == ".svg"

\* one avatar for every name
AvatarFixed(u) == Plain(AvatarPrefix \o "guest" \o AvatarSuffix)

\* format!("https://avatars.dicebear.com/api/adventurer-neutral/{}.svg", u)
Avatar(u) == Plain(AvatarPrefix \o u.chars \o AvatarSuffix)

UserProfile(u) == [name |-> u, avatar |-> Avatar(u)]

\* users_from_message.iter().map(|u| UserProfile { .. }).collect()
Profiles(names) == [i \in 1..Len(names) |-> UserProfile(names[i])]

\* msg.data_array.unwrap_or_default() mapped to profiles: the new self.users
UsersFromMessage(data_array) ==
    Profiles(IF data_array = None THEN <<>> ELSE data_array[1])

\* the new entry put in front of the others
PushFront(msgs, message_data) == <<message_data>> \o msgs

\* self.messages.push(message_data)
Push(msgs, message_data) == Append(msgs, message_data)

\* ------------------------------------------------------ Chat::create
\* a registration that leaves the username out
RegisterWithoutName(name) == WebSocketMessage("Register", None, None)

\* WebSocketMessage { message_type: Register, data: Some(username),
\*                    data_array: None }
RegisterMessage(name) == WebSocketMessage("Register", None, Some(name))

\* ------------------------------------------------------ Chat::update
\* the input value sent in the list instead of in data
SubmitEnvelopeInList(value) == WebSocketMessage("Message", Some(<<value>>), None)

\* WebSocketMessage { message_type: Message, data: Some(input.value()),
\*                    data_array: None }
SubmitEnvelope(value) == WebSocketMessage("Message", None, Some(value))

Panicked(us, ms) ==
    [panic |-> TRUE, users |-> us, messages |-> ms, render |-> FALSE]

Returned(us, ms, render) ==
    [panic |-> FALSE, users |-> us, messages |-> ms, render |-> render]

\* a re-render asked for only when the roster has changed
UsersBranchIfChanged(us, ms, msg) ==
    Returned(UsersFromMessage(msg.data_array), ms,
             UsersFromMessage(msg.data_array) # us)

\* the new profiles added to the roster instead of replacing it
UsersBranchMerge(us, ms, msg) ==
    Returned(us \o UsersFromMessage(msg.data_array), ms, TRUE)

\* MsgTypes::Users => { self.users = ..; return true; }
UsersBranch(us, ms, msg) == Returned(UsersFromMessage(msg.data_array), ms, TRUE)

\* a Message branch that also takes the roster from the envelope's list
MessageBranchSetsRoster(us, ms, msg) ==
    IF msg.data = None THEN Panicked(us, ms)
    ELSE LET p == DecodePayload(msg.data[1])
         IN  IF ~p.ok THEN Panicked(us, ms)
             ELSE Returned(UsersFromMessage(msg.data_array), Push(ms, p.data),
                           TRUE)

\* MsgTypes::Message => { from_str(&msg.data.unwrap()).unwrap(); push;
\*                        return true; }
MessageBranch(us, ms, msg) ==
    IF msg.data = None THEN Panicked(us, ms)
    ELSE LET p == DecodePayload(msg.data[1])
         IN  IF ~p.ok THEN Panicked(us, ms)
             ELSE Returned(us, Push(ms, p.data), TRUE)

\* the catch-all branch asking for a re-render
OtherBranchRerender(us, ms, msg) == Returned(us, ms, TRUE)

\* _ => { return false; }
OtherBranch(us, ms, msg) == Returned(us, ms, FALSE)

\* Msg::HandleMsg(s): the fields of self after the call and what it returned
UpdateHandleMsg(us, ms, s) ==
    LET d == Decode(s)
    IN  IF ~d.ok THEN Panicked(us, ms)
        ELSE CASE d.msg.message_type = "Users" -> UsersBranch(us, ms, d.msg)
               [] d.msg.message_type = "Message" -> MessageBranch(us, ms, d.msg)
               [] OTHER -> OtherBranch(us, ms, d.msg)

\* ------------------------------------------------------ Chat::view
\* self.users.iter().find(|u| u.name == m.from): index of the first match,
\* 0 when there is none
Find(us, from) ==
    IF \E i \in 1..Len(us) : us[i].name = from
    THEN CHOOSE i \in 1..Len(us) :
            /\ us[i].name = from
            /\ \A j \in 1..(i - 1) : us[j].name # from
    ELSE 0

\* the find(..).unwrap() of some transcript entry fails
ViewPanics(us, ms) == \E i \in 1..Len(ms) : Find(us, ms[i].from) = 0

\* what view renders: the roster panel and one bubble per transcript entry
\* with the avatar of the sender's profile
ViewHtml(us, ms) ==
    [roster |-> us,
     bubbles |-> [i \in 1..Len(ms) |->
                    [from |-> ms[i].from,
                     message |-> ms[i].message,
                     avatar |-> us[Find(us, ms[i].from)].avatar]]]

\* ------------------------------------------------------ inputs
Usernames == {Plain("carol"), Plain("dave")}

Names == {Plain("alice"), Plain("bob")}

Bodies == {Plain("hi")}

\* what the user can have typed into the input element
Values == {Plain(""), Plain("hi")}

\* the lists a Users frame can carry: empty, one name, two names, a
\* repeated name
Lists == {<<>>, <<Plain("alice")>>, <<Plain("alice"), Plain("bob")>>,
          <<Plain("bob"), Plain("bob")>>}

\* the JSON text of a MessageData
Payload(from, message) ==
    Doc([NoFields EXCEPT !["from"] = JStr(from), !["message"] = JStr(message)])

Envelope(mt, arr, list, data) ==
    Doc([NoFields EXCEPT !["messageType"] = mt, !["dataArray"] = arr,
                         !["dataList"] = list, !["data"] = data])

Tok(t) == JStr(Plain(t))

GoodPayloads == {JStr(Payload(n, b)) : n \in Names, b \in Bodies}

BadPayloads ==
    {JStr(Plain("hi")),
     JStr(Doc([NoFields EXCEPT !["from"] = JStr(Plain("alice"))])),
     JStr(Doc([NoFields EXCEPT !["message"] = JStr(Plain("hi"))]))}

UsersFrames ==
    {Envelope(Tok("users"), JArr(l), Absent, Absent) : l \in Lists}
      \cup {Envelope(Tok("users"), Absent, Absent, Absent),
            Envelope(Tok("users"), Absent, JArr(<<Plain("alice"), Plain("bob")>>),
                     Absent),
            Envelope(Tok("users"), JArr(<<Plain("alice")>>), Absent,
                     JStr(Payload(Plain("bob"), Plain("hi"))))}

MessageFrames ==
    {Envelope(Tok("message"), Absent, Absent, d) : d \in GoodPayloads}
      \cup {Envelope(Tok("message"), Absent, Absent, d) :
               d \in BadPayloads \cup {Absent}}
      \cup {Envelope(Tok("message"), JArr(<<Plain("bob")>>), Absent,
                     JStr(Payload(Plain("alice"), Plain("hi"))))}

RegisterFrames ==
    {Envelope(Tok("register"), JNull, Absent, JStr(Plain("carol"))),
     Envelope(Tok("register"), JArr(<<Plain("bob")>>), Absent,
              JStr(Payload(Plain("bob"), Plain("hi"))))}

BadFrames ==
    {Plain("not json"),
     Envelope(Absent, JArr(<<Plain("alice")>>), Absent, Absent),
     Envelope(Tok("leave"), Absent, Absent, JStr(Plain("alice"))),
     Envelope(Tok("users"), JArr(<<Plain("alice")>>), Absent, JNum)}

\* the raw frames the event bus can hand to the component
Frames == UsersFrames \cup MessageFrames \cup RegisterFrames \cup BadFrames

\* ------------------------------------------------------ frames on the wire
\* the messageType token of a frame, "" when it has none
WireToken(s) ==
    IF s.json /\ s.obj["messageType"].t = "str"
              /\ ~s.obj["messageType"].a[1].json
    THEN s.obj["messageType"].a[1].chars ELSE ""

\* well-formed structured text with one of the three known tokens
WireKnown(s) == s.json /\ WireToken(s) \in {"users", "register", "message"}

\* the text of an envelope: a known token, data a string if present, the
\* list an array of strings if present
WireEnvelope(s) ==
    /\ WireKnown(s)
    /\ s.obj["data"].t \in {"absent", "null", "str"}
    /\ s.obj["dataArray"].t \in {"absent", "null", "arr"}

WireUsers(s) == WireEnvelope(s) /\ WireToken(s) = "users"

WireRegister(s) == WireEnvelope(s) /\ WireToken(s) = "register"

WireMessage(s) == WireEnvelope(s) /\ WireToken(s) = "message"

\* the data of a Message envelope is the text of a {from, message} object
WirePayloadOk(s) ==
    /\ s.obj["data"].t = "str"
    /\ s.obj["data"].a[1].json
    /\ s.obj["data"].a[1].obj["from"].t = "str"
    /\ s.obj["data"].a[1].obj["message"].t = "str"

WirePayload(s) ==
    [from |-> s.obj["data"].a[1].obj["from"].a[1],
     message |-> s.obj["data"].a[1].obj["message"].a[1]]

\* the list a frame carries under the given key, empty when it has none
WireList(s, key) == IF s.obj[key].t = "arr" THEN s.obj[key].a ELSE <<>>

\* the fixed avatar URL of a name
Template(n) ==
    Plain("https://avatars.dicebear.com/api/adventurer-neutral/" \o n.chars
          \o ".svg")

\* ------------------------------------------------------ state
VARIABLES
    phase,      \* "Uninitialized", "Active", "Crashed" or "Closed"
    username,   \* user.username of the ambient context
    users,      \* Chat.users
    messages,   \* Chat.messages
    input,      \* the element behind Chat.chat_input: None or Some(value)
    tx,         \* texts accepted by Chat.wss.tx
    tried,      \* every text handed to try_send, accepted or not
    html,       \* what the last call of view rendered
    producer,   \* Chat._producer, the bridge to the event bus, is alive
    arrived,    \* the MessageData of the Message frames handled so far
    codec,      \* an envelope on its way through to_string and from_str
    alone,      \* users and messages of a Chat that is given the frames only
    last        \* the last event, the state it started from, what it returned

vars == <<phase, username, users, messages, input, tx, tried, html, producer,
          arrived, codec, alone, last>>

Event(kind, frame, ret) ==
    [kind |-> kind, frame |-> frame, ret |-> ret,
     users |-> users, messages |-> messages, tried |-> tried, tx |-> tx,
     input |-> input]

\* no envelope is on its way
CodecIdle ==
    [stage |-> "idle", e |-> WebSocketMessage("Register", None, None),
     text |-> Plain(""), out |-> DecodeError]

\* the component before it is created
InitChat ==
    /\ phase = "Uninitialized"
    /\ username \in Usernames
    /\ users = <<>>
    /\ messages = <<>>
    /\ input = None
    /\ tx = <<>>
    /\ tried = <<>>
    /\ html = ViewHtml(<<>>, <<>>)
    /\ producer = FALSE
    /\ arrived = <<>>
    /\ alone = [users |-> <<>>, messages |-> <<>>]
    /\ last = Event("none", Plain(""), "none")

Init == InitChat /\ codec = CodecIdle

\* a refused text handed to the channel a second time
TrySendRetry(text, ok) ==
    /\ tried' = IF ok THEN Append(tried, text)
                ELSE Append(Append(tried, text), text)
    /\ tx' = IF ok THEN Append(tx, text) ELSE tx

\* wss.tx.clone().try_send(text): the channel takes the text or refuses it
TrySend(text, ok) ==
    /\ tried' = Append(tried, text)
    /\ tx' = IF ok THEN Append(tx, text) ELSE tx

\* Chat::create followed by the first render
Create ==
    /\ phase = "Uninitialized"
    /\ \E ok \in BOOLEAN : TrySend(Encode(RegisterMessage(username)), ok)
    /\ users' = <<>>
    /\ messages' = <<>>
    /\ input' = Some(Plain(""))
    /\ html' = ViewHtml(<<>>, <<>>)
    /\ producer' = TRUE
    /\ phase' = "Active"
    /\ last' = Event("create", Plain(""), "none")
    /\ UNCHANGED <<username, arrived, codec, alone>>

\* the event bus hands a frame to the callback of every bridge that is alive
BusDelivers == producer

\* Chat::update on Msg::HandleMsg(s), and the render that follows a true
HandleMsg(s) ==
    /\ BusDelivers
    /\ phase # "Crashed"
    /\ LET r == UpdateHandleMsg(users, messages, s)
           renders == ~r.panic /\ r.render
           crash == r.panic \/ (renders /\ ViewPanics(r.users, r.messages))
       IN  /\ Len(r.messages) <= MaxTranscript
           /\ users' = r.users
           /\ messages' = r.messages
           /\ html' = IF renders /\ ~crash
                      THEN ViewHtml(r.users, r.messages) ELSE html
           /\ phase' = IF crash THEN "Crashed" ELSE phase
           /\ last' = Event("HandleMsg", s,
                            IF r.panic THEN "panic"
                            ELSE IF r.render THEN "true" ELSE "false")
    /\ arrived' = IF WireMessage(s) /\ WirePayloadOk(s)
                  THEN Append(arrived, WirePayload(s)) ELSE arrived
    /\ alone' = LET a == UpdateHandleMsg(alone.users, alone.messages, s)
                IN  [users |-> a.users, messages |-> a.messages]
    /\ UNCHANGED <<username, input, tx, tried, producer, codec>>

\* a SubmitMessage that also shows the sent text in the transcript
SubmitMessageEcho ==
    /\ phase = "Active"
    /\ Len(tried) < MaxTried
    /\ IF input # None
       THEN /\ \E ok \in BOOLEAN :
                 TrySend(Encode(SubmitEnvelope(input[1])), ok)
            /\ input' = Some(Plain(""))
            /\ messages' = Push(messages, MessageData(username, input[1]))
       ELSE UNCHANGED <<input, tx, tried, messages>>
    /\ last' = Event("SubmitMessage", Plain(""), "false")
    /\ UNCHANGED <<phase, username, users, html, producer, arrived, codec,
                   alone>>

\* Chat::update on Msg::SubmitMessage
SubmitMessage ==
    /\ phase = "Active"
    /\ Len(tried) < MaxTried
    /\ IF input # None
       THEN /\ \E ok \in BOOLEAN :
                 TrySend(Encode(SubmitEnvelope(input[1])), ok)
            /\ input' = Some(Plain(""))
       ELSE UNCHANGED <<input, tx, tried>>
    /\ last' = Event("SubmitMessage", Plain(""), "false")
    /\ UNCHANGED <<phase, username, users, messages, html, producer, arrived,
                   codec, alone>>

\* the user edits the text of the input element
TypeInput(v) ==
    /\ phase = "Active"
    /\ input # None
    /\ input' = Some(v)
    /\ last' = Event("TypeInput", Plain(""), "none")
    /\ UNCHANGED <<phase, username, users, messages, tx, tried, html, producer,
                   arrived, codec, alone>>

\* the component is dropped and the bridge stays behind, still alive
DestroyKeepsBridge ==
    /\ phase = "Active"
    /\ phase' = "Closed"
    /\ input' = None
    /\ last' = Event("destroy", Plain(""), "none")
    /\ UNCHANGED <<username, users, messages, tx, tried, html, producer,
                   arrived, codec, alone>>

\* the component is torn down: the Chat is dropped and its fields with it,
\* the bridge _producer among them; the input element leaves the page
Destroy ==
    /\ phase = "Active"
    /\ phase' = "Closed"
    /\ producer' = FALSE
    /\ input' = None
    /\ last' = Event("destroy", Plain(""), "none")
    /\ UNCHANGED <<username, users, messages, tx, tried, html, arrived, codec,
                   alone>>

Next ==
    \/ Create
    \/ \E s \in Frames : HandleMsg(s)
    \/ SubmitMessage
    \/ \E v \in Values : TypeInput(v)
    \/ Destroy

Spec == Init /\ [][Next]_vars

\* ------------------------------------------------------ the codec alone
\* the strings an envelope can carry in data
DataTexts == Values \cup {Plain("carol")}
               \cup {Payload(n, b) : n \in Names, b \in Bodies}

\* the WebSocketMessage values
Envelopes ==
    {WebSocketMessage(t, a, d) :
        t \in MsgTypes,
        a \in {None} \cup {Some(l) : l \in Lists},
        d \in {None} \cup {Some(x) : x \in DataTexts}}

InitCodec ==
    /\ InitChat
    /\ \E e \in Envelopes : codec = [CodecIdle EXCEPT !.stage = "value", !.e = e]

chat == <<phase, username, users, messages, input, tx, tried, html, producer,
          arrived, alone, last>>

\* serde_json::to_string(&message)
CodecEncode ==
    /\ codec.stage = "value"
    /\ codec' = [codec EXCEPT !.stage = "encoded", !.text = Encode(codec.e)]
    /\ UNCHANGED chat

\* serde_json::from_str(&s)
CodecDecode ==
    /\ codec.stage = "encoded"
    /\ codec' = [codec EXCEPT !.stage = "decoded", !.out = Decode(codec.text)]
    /\ UNCHANGED chat

NextCodec == CodecEncode \/ CodecDecode

SpecCodec == InitCodec /\ [][NextCodec]_vars

\* ------------------------------------------------------ properties
Handled == last.kind = "HandleMsg"

Submitted == last.kind = "SubmitMessage"

IsPrefix(p, q) == Len(p) <= Len(q) /\ \A i \in 1..Len(p) : p[i] = q[i]

RegisterText(t, u) ==
    t.json /\ WireToken(t) = "register" /\ t.obj["data"] = JStr(u)

\* C1: mounting with username u hands exactly one Register envelope with
\* data = u to the transport, before any inbound frame is handled, and no
\* later event hands it another Register envelope.
C1_RegisterOnceAtMount ==
    /\ phase = "Uninitialized" => tried = <<>> /\ last.kind = "none"
    /\ phase # "Uninitialized" =>
          /\ Len(tried) >= 1
          /\ RegisterText(tried[1], username)
          /\ \A i \in 2..Len(tried) : WireToken(tried[i]) # "register"
    /\ Handled => /\ Len(last.tried) >= 1
                  /\ RegisterText(last.tried[1], username)

C1_Witness ==
    /\ Handled
    /\ Len(tried) = 2
    /\ arrived # <<>>
    /\ RegisterText(tried[1], username)

\* C2: a frame that is not well-formed structured text, or whose
\* messageType is not a known token, is dropped: roster and transcript keep
\* their values and the view goes on handling frames.
C2_MalformedEnvelopeDropped ==
    (Handled /\ ~WireKnown(last.frame)) =>
        /\ phase = "Active"
        /\ users = last.users
        /\ messages = last.messages

\* C3: a Message envelope whose data is absent, or whose payload does not
\* parse or lacks from or message, is dropped: roster and transcript keep
\* their values and the view goes on handling frames.
C3_MalformedPayloadDropped ==
    (Handled /\ WireMessage(last.frame) /\ ~WirePayloadOk(last.frame)) =>
        /\ phase = "Active"
        /\ users = last.users
        /\ messages = last.messages

\* C4: whenever a handled frame asks for a re-render the render succeeds,
\* showing every transcript entry, also one whose sender is not in the
\* roster.
C4_RenderSucceeds ==
    (Handled /\ last.ret = "true") =>
        /\ phase = "Active"
        /\ html.roster = users
        /\ Len(html.bubbles) = Len(messages)

\* C5: a SubmitMessage with the empty string in the input hands nothing to
\* the transport.
C5_EmptyInputNotSent ==
    (Submitted /\ last.input = Some(Plain(""))) =>
        /\ tried = last.tried
        /\ tx = last.tx

\* the roster holds one profile per entry of the list, in the list's order,
\* each with the templated avatar
RosterIs(list) ==
    /\ Len(users) = Len(list)
    /\ \A i \in 1..Len(list) :
          /\ users[i].name = list[i]
          /\ users[i].avatar = Template(list[i])

\* C6 as stated: a Users envelope whose field dataList is [n1, ..., nk]
\* sets the roster to the k profiles of n1, ..., nk in that order.
C6_RosterFromDataList ==
    (Handled /\ WireUsers(last.frame) /\ last.frame.obj["dataList"].t = "arr")
        => RosterIs(WireList(last.frame, "dataList"))

\* C6, amended: a Users envelope whose field dataArray is [n1, ..., nk]
\* sets the roster to the k profiles of n1, ..., nk in that order, the i-th
\* with name ni and avatar template(ni).
C6_RosterFromDataArray ==
    (Handled /\ WireUsers(last.frame) /\ last.frame.obj["dataArray"].t = "arr")
        => RosterIs(WireList(last.frame, "dataArray"))

C6_Witness ==
    /\ Handled
    /\ WireUsers(last.frame)
    /\ last.frame.obj["dataArray"] = JArr(<<Plain("alice"), Plain("bob")>>)
    /\ Len(users) = 2
    /\ users[1].name = Plain("alice")
    /\ users[2].name = Plain("bob")

\* C7: the transcript is the sequence of the MessageData of the handled
\* Message frames in arrival order: such a frame adds its MessageData at the
\* end, every other event leaves the transcript as it was.
C7_TranscriptAppendOnly ==
    /\ messages = arrived
    /\ last.kind \in {"HandleMsg", "SubmitMessage", "TypeInput"} =>
          IF Handled /\ WireMessage(last.frame) /\ WirePayloadOk(last.frame)
          THEN messages = Append(last.messages, WirePayload(last.frame))
          ELSE messages = last.messages

C7_Witness ==
    /\ Handled
    /\ WireMessage(last.frame)
    /\ Len(messages) = 2
    /\ messages[1].from # messages[2].from
    /\ messages[2] = WirePayload(last.frame)

\* C8: a Register envelope on the inbound path changes neither roster nor
\* transcript, hands nothing to the transport and returns false (no
\* re-render).
C8_InboundRegisterNoOp ==
    (Handled /\ WireRegister(last.frame)) =>
        /\ users = last.users
        /\ messages = last.messages
        /\ tried = last.tried
        /\ tx = last.tx
        /\ last.ret = "false"
        /\ phase = "Active"

C8_Witness ==
    /\ Handled
    /\ WireRegister(last.frame)
    /\ users # <<>>
    /\ messages # <<>>
    /\ last.ret = "false"

\* C9: after a Users envelope the roster is made of that envelope's list
\* alone: it is as long as the list, every entry is named in the list, and
\* with no list the roster is empty, whatever the roster was before.
C9_RosterReplaced ==
    (Handled /\ WireUsers(last.frame)) =>
        LET list == WireList(last.frame, "dataArray")
        IN  /\ Len(users) = Len(list)
            /\ \A i \in 1..Len(users) :
                  \E j \in 1..Len(list) : users[i].name = list[j]
            /\ last.frame.obj["dataArray"].t # "arr" => users = <<>>

C9_Witness ==
    /\ Handled
    /\ WireUsers(last.frame)
    /\ last.frame.obj["dataArray"].t = "absent"
    /\ Len(last.users) = 2
    /\ users = <<>>

\* C10: a SubmitMessage with a non-empty input value v hands exactly one
\* text to the transport, a Message envelope with data = v and no list, and
\* leaves the input empty.
C10_SubmitSendsInput ==
    (Submitted /\ last.input # None /\ last.input # Some(Plain(""))) =>
        /\ Len(tried) = Len(last.tried) + 1
        /\ IsPrefix(last.tried, tried)
        /\ WireEnvelope(tried[Len(tried)])
        /\ WireToken(tried[Len(tried)]) = "message"
        /\ tried[Len(tried)].obj["data"] = JStr(last.input[1])
        /\ tried[Len(tried)].obj["dataArray"].t \in {"absent", "null"}
        /\ tried[Len(tried)].obj["dataList"].t = "absent"
        /\ input = Some(Plain(""))

C10_Witness ==
    /\ Submitted
    /\ last.input = Some(Plain("hi"))
    /\ Len(tried) = 2
    /\ tried[2].obj["data"] = JStr(Plain("hi"))
    /\ input = Some(Plain(""))

Sent == last.kind \in {"create", "SubmitMessage"}

\* C11: a try_send that fails, at registration or at a user send, is
\* swallowed: the view is mounted and running, roster and transcript are as
\* before, the text is handed to the channel once and no later event hands
\* it over again.
C11_SendFailureSwallowed ==
    /\ (Sent /\ tried # last.tried /\ tx = last.tx) =>
          /\ phase = "Active"
          /\ users = last.users
          /\ messages = last.messages
    /\ Sent =>
          /\ IsPrefix(last.tried, tried)
          /\ Len(tried) <= Len(last.tried) + 1
          /\ tx = last.tx \/ tx = Append(last.tx, tried[Len(tried)])
    /\ ~Sent => tried = last.tried /\ tx = last.tx

C11_Witness ==
    /\ Handled
    /\ last.ret = "true"
    /\ phase = "Active"
    /\ users # <<>>
    /\ Len(tried) = 2
    /\ tx = <<>>

\* C12: the bridge to the event bus is held from mount to teardown and no
\* longer: once the view is Closed the bridge is gone, no frame has been
\* handled since the teardown, and roster and transcript are as the teardown
\* left them.
C12_BridgeScopedToView ==
    /\ producer <=> phase \in {"Active", "Crashed"}
    /\ phase = "Closed" =>
          /\ last.kind = "destroy"
          /\ users = last.users
          /\ messages = last.messages
          /\ tried = last.tried

C12_Witness ==
    /\ phase = "Closed"
    /\ ~producer
    /\ users # <<>>
    /\ messages # <<>>

\* the lowercase name of a message type
Lowercase(t) ==
    CASE t = "Users" -> "users"
      [] t = "Register" -> "register"
      [] t = "Message" -> "message"

\* C13: decoding the encoding of an envelope gives the envelope back,
\* whatever its type, with or without data, with or without a list, and the
\* encoding carries the type as the lowercase token users, register or
\* message.
C13_RoundTrip ==
    /\ codec.stage \in {"encoded", "decoded"} =>
          /\ codec.text.json
          /\ codec.text.obj["messageType"]
                = JStr(Plain(Lowercase(codec.e.message_type)))
    /\ codec.stage = "decoded" =>
          /\ codec.out.ok
          /\ codec.out.msg = codec.e

C13_Witness ==
    /\ codec.stage = "decoded"
    /\ codec.out.ok
    /\ codec.out.msg.message_type = "Users"
    /\ codec.out.msg.data_array = Some(<<>>)
    /\ codec.out.msg.data = Some(Plain("hi"))

\* C14: roster and transcript are what the handled frames alone make them,
\* whatever SubmitMessage events came between the frames, and a
\* SubmitMessage leaves roster and transcript as they were (no local echo).
C14_SubmitsDoNotInterfere ==
    /\ users = alone.users
    /\ messages = alone.messages
    /\ Submitted =>
          /\ users = last.users
          /\ messages = last.messages
          /\ phase = "Active"

C14_Witness ==
    /\ Handled
    /\ Len(tried) = 2
    /\ tried[2].obj["data"] = JStr(Plain("hi"))
    /\ Len(last.messages) = 1
    /\ Len(messages) = 2
    /\ users # <<>>
    /\ users = alone.users
    /\ messages = alone.messages

\* C15: update returns true (re-render) exactly for a well-formed inbound
\* Users or Message frame, also when the roster comes out as it was; it
\* returns false for an inbound Register frame and for every SubmitMessage.
C15_RerenderSignal ==
    /\ Handled =>
          (last.ret = "true" <=>
              \/ WireUsers(last.frame)
              \/ WireMessage(last.frame) /\ WirePayloadOk(last.frame))
    /\ (Handled /\ WireRegister(last.frame)) => last.ret = "false"
    /\ Submitted => last.ret = "false"
    /\ last.ret = "true" => Handled

C15_Witness ==
    /\ Handled
    /\ WireUsers(last.frame)
    /\ users # <<>>
    /\ users = last.users
    /\ last.ret = "true"

\* C16: a Users envelope leaves the transcript as it was, whatever its data
\* holds, a Message envelope leaves the roster as it was, whatever its list
\* holds, and neither hands anything to the transport.
C16_DispatchTouchesOwnField ==
    /\ (Handled /\ WireUsers(last.frame)) =>
          /\ messages = last.messages
          /\ tried = last.tried
          /\ tx = last.tx
    /\ (Handled /\ WireMessage(last.frame)) =>
          /\ users = last.users
          /\ tried = last.tried
          /\ tx = last.tx

C16_Witness ==
    /\ Handled
    /\ WireUsers(last.frame)
    /\ WirePayloadOk(last.frame)
    /\ users # last.users
    /\ messages # <<>>
    /\ messages = last.messages

\* C17: every roster entry carries the templated avatar of its name, so
\* entries with the same name (a repeated name stays repeated) carry the
\* same avatar, and the avatar rendered for a transcript entry is that of
\* its sender whichever of them the lookup finds.
C17_AvatarOfName ==
    /\ \A i \in 1..Len(users) : users[i].avatar = Template(users[i].name)
    /\ \A i, j \in 1..Len(users) :
          users[i].name = users[j].name => users[i].avatar = users[j].avatar
    /\ (Handled /\ WireUsers(last.frame)) =>
          Len(users) = Len(WireList(last.frame, "dataArray"))
    /\ \A k \in 1..Len(html.bubbles) :
          html.bubbles[k].avatar = Template(html.bubbles[k].from)

C17_Witness ==
    /\ Len(users) = 2
    /\ users[1].name = users[2].name
    /\ Len(html.bubbles) >= 1
    /\ html.roster = users
    /\ html.bubbles[1].from = users[1].name
    /\ html.bubbles[1].avatar = users[2].avatar

====
